---- MODULE Spec2Model ----
(***************************************************************************)
(* Model of custom_components/vicemergency_feed/geo_location.py: the       *)
(* VICEmergencyFeedEntityManager, the VICEmergencyLocationEvent entities   *)
(* it creates, and the host (Home Assistant) pieces they are wired to: the *)
(* start/stop events, the interval timer, the dispatcher and the entity    *)
(* platform's add / update / remove tasks.  The external feed manager is   *)
(* the environment: it holds feed_entries and fires the added / updated /  *)
(* removed callbacks while an update is in flight.                         *)
(***************************************************************************)
EXTENDS Integers, Sequences, FiniteSets, TLC

VARIABLES
    feed_entries,                 \* self._feed_manager.feed_entries: external id -> entry
    entities,                     \* every VICEmergencyLocationEvent constructed so far
    registry,                     \* host side of each entity: platform task, phase, history
    dispatcher,                   \* host dispatcher: set of <<signal, entity index>>
    track_time_remove_callback,   \* manager._track_time_remove_callback
    timer,                        \* host scheduler: is the interval listener registered
    hass_events,                  \* host lifecycle events fired so far (listen_once)
    startup_task,                 \* hass.async_create_task(manager.async_update()) not yet begun
    updates,                      \* manager.async_update invocations suspended in the fetch
    log,                          \* history: per identifier, the feed-manager callbacks fired
    orderly,                      \* history: every callback so far fired with the host idle
    raised,                       \* exception raised by the last handler ("" when none)
    view,                         \* projection harness: one entity, its entry, what was read
    setup                         \* platform setup: the configuration and what was built from it

vars == <<feed_entries, entities, registry, dispatcher, track_time_remove_callback,
          timer, hass_events, startup_task, updates, log, orderly, raised, view,
          setup>>

lifecycle_vars == <<feed_entries, entities, registry, dispatcher,
                    track_time_remove_callback, timer, hass_events, startup_task,
                    updates, log, orderly, raised, setup>>

(***************************************************************************)
(* Bounds of the model.                                                    *)
(***************************************************************************)
MaxEntities == 2      \* entities constructed in one run
MaxCallbacks == 4     \* feed-manager callbacks fired in one run
MaxUpdates == 2       \* update invocations in flight at once
MaxRenders == 2       \* render passes on the entity under projection
MaxCategories == 2    \* length of a configured category list

Ids == {"X", "Y"}
ForeignEtsaId == "ESTA-7"

(***************************************************************************)
(* Python values: a type tag and the printed value.                        *)
(***************************************************************************)
None == [t |-> "NoneType", v |-> "None"]
Unset == [t |-> "unset", v |-> ""]          \* attribute never assigned
Str(s) == [t |-> "str", v |-> s]
Bool(b) == [t |-> "bool", v |-> IF b THEN "True" ELSE "False"]
Float(s) == [t |-> "float", v |-> s]
List(s) == [t |-> "list", v |-> s]
Function(s) == [t |-> "function", v |-> s]

\* bool(value), as the `if value` of line 353 evaluates it
Truthy(value) ==
    CASE value.t = "NoneType" -> FALSE
      [] value.t = "str" -> value.v # ""
      [] value.t = "bool" -> value.v = "True"
      [] value.t = "float" -> value.v # "0.0"
      [] value.t = "list" -> value.v # "[]"
      [] OTHER -> TRUE

IsInstanceBool(value) == value.t = "bool"

(***************************************************************************)
(* Module constants.                                                       *)
(***************************************************************************)
ATTR_ATTRIBUTION == "attribution"
ATTR_CATEGORY1 == "category1"
ATTR_CATEGORY2 == "category2"
ATTR_DESCRIPTION == "description"
ATTR_ID == "id"
ATTR_PUBLICATION_DATE == "publication_date"
ATTR_SOURCE_TITLE == "sourceTitle"
ATTR_SOURCE_ORG == "sourceOrg"
ATTR_RESOURCES == "resources"
ATTR_SIZE == "size"
ATTR_SIZE_FMT == "sizefmt"
ATTR_LOCATION == "location"
ATTR_STATUS == "status"
ATTR_TYPE == "type"
ATTR_STATEWIDE == "statewide"

SIGNAL_DELETE_ENTITY(external_id) == "vicemergency_feed_delete_" \o external_id
SIGNAL_UPDATE_ENTITY(external_id) == "vicemergency_feed_update_" \o external_id

(***************************************************************************)
(* VICEmergencyLocationEvent.__init__                                      *)
(***************************************************************************)
NewEntity(external_id) ==
    [external_id |-> external_id,
     name |-> None,
     distance |-> None,
     latitude |-> None,
     longitude |-> None,
     attribution |-> None,
     remove_signal_delete |-> None,
     remove_signal_update |-> None,
     category1 |-> None,
     category2 |-> None,
     description |-> None,
     id |-> None,
     sourceTitle |-> None,
     sourceOrg |-> None,
     resources |-> None,
     size |-> None,
     sizefmt |-> None,
     location |-> None,
     status |-> None,
     type |-> None,
     statewide |-> None,
     publication_date |-> Unset]

(***************************************************************************)
(* VICEmergencyLocationEvent._update_from_feed                             *)
(***************************************************************************)
\* variant: the name is assembled with location and category1 exchanged
UpdateFromFeedSwappedName(self, feed_entry) ==
    [self EXCEPT
        !.name = Str(feed_entry.location.v \o " - " \o feed_entry.category1.v),
        !.distance = feed_entry.distance_to_home,
        !.latitude = feed_entry.coordinates[1],
        !.longitude = feed_entry.coordinates[2],
        !.attribution = feed_entry.attribution,
        !.publication_date = feed_entry.publication_date,
        !.location = feed_entry.location,
        !.category1 = feed_entry.category1,
        !.category2 = feed_entry.category2,
        !.description = feed_entry.description,
        !.external_id = feed_entry.etsa_id,
        !.sourceOrg = feed_entry.source_organisation,
        !.resources = feed_entry.resources,
        !.size = feed_entry.size,
        !.sizefmt = feed_entry.size_fmt,
        !.status = feed_entry.status,
        !.type = feed_entry.type,
        !.statewide = feed_entry.statewide]

UpdateFromFeed(self, feed_entry) ==
    [self EXCEPT
        !.name = Str(feed_entry.category1.v \o " - " \o feed_entry.location.v),
        !.distance = feed_entry.distance_to_home,
        !.latitude = feed_entry.coordinates[1],
        !.longitude = feed_entry.coordinates[2],
        !.attribution = feed_entry.attribution,
        !.publication_date = feed_entry.publication_date,
        !.location = feed_entry.location,
        !.category1 = feed_entry.category1,
        !.category2 = feed_entry.category2,
        !.description = feed_entry.description,
        !.external_id = feed_entry.etsa_id,
        !.sourceOrg = feed_entry.source_organisation,
        !.resources = feed_entry.resources,
        !.size = feed_entry.size,
        !.sizefmt = feed_entry.size_fmt,
        !.status = feed_entry.status,
        !.type = feed_entry.type,
        !.statewide = feed_entry.statewide]

(***************************************************************************)
(* VICEmergencyLocationEvent.icon                                          *)
(***************************************************************************)
\* variant: the Fire rule is tested before the status rules
IconCategoryFirst(self) ==
    IF self.category1 = Str("Fire")
    THEN IF self.status = Str("Under Control") THEN "mdi:fire" ELSE "mdi:fire-alert"
    ELSE IF self.status = Str("Safe") \/ self.status = Str("Complete")
    THEN "mdi:map-marker-check"
    ELSE IF self.status = Str("Unknown")
    THEN "mdi:map-marker-question"
    ELSE IF self.category1 = Str("Rescue") /\ self.category2 = Str("Rescue Road Trap")
    THEN "mdi:car-emergency"
    ELSE IF self.category1 = Str("Tree Down")
    THEN "mdi:tree"
    ELSE IF self.category1 = Str("Flooding")
    THEN "mdi:house-flood"
    ELSE IF self.status = Str("Warning")
    THEN "mdi:alert"
    ELSE "mdi:alarm-light"

Icon(self) ==
    IF self.status = Str("Safe") \/ self.status = Str("Complete")
    THEN "mdi:map-marker-check"
    ELSE IF self.status = Str("Unknown")
    THEN "mdi:map-marker-question"
    ELSE IF self.category1 = Str("Rescue") /\ self.category2 = Str("Rescue Road Trap")
    THEN "mdi:car-emergency"
    ELSE IF self.category1 = Str("Fire")
    THEN IF self.status = Str("Under Control") THEN "mdi:fire" ELSE "mdi:fire-alert"
    ELSE IF self.category1 = Str("Tree Down")
    THEN "mdi:tree"
    ELSE IF self.category1 = Str("Flooding")
    THEN "mdi:house-flood"
    ELSE IF self.status = Str("Warning")
    THEN "mdi:alert"
    ELSE "mdi:alarm-light"

(***************************************************************************)
(* VICEmergencyLocationEvent.device_state_attributes                       *)
(***************************************************************************)
\* the tuple of (key, value) pairs of lines 334-352, in source order
AttributePairs(self) ==
    << <<ATTR_ID, self.id>>,
       <<ATTR_LOCATION, self.location>>,
       <<ATTR_ATTRIBUTION, self.attribution>>,
       <<ATTR_CATEGORY1, self.category1>>,
       <<ATTR_CATEGORY2, self.category2>>,
       <<ATTR_DESCRIPTION, self.description>>,
       <<ATTR_PUBLICATION_DATE, self.publication_date>>,
       <<ATTR_SOURCE_TITLE, self.sourceTitle>>,
       <<ATTR_SOURCE_ORG, self.sourceOrg>>,
       <<ATTR_RESOURCES, self.resources>>,
       <<ATTR_SIZE, self.size>>,
       <<ATTR_SIZE_FMT, self.sizefmt>>,
       <<ATTR_LOCATION, self.location>>,
       <<ATTR_STATUS, self.status>>,
       <<ATTR_STATEWIDE, self.statewide>>,
       <<ATTR_TYPE, self.type>>,
       <<ATTR_DESCRIPTION, self.description>> >>

\* variant: `if value`, without the isinstance test
KeepsTruthyOnly(value) == Truthy(value)

\* `if value or isinstance(value, bool)`
Keeps(value) == Truthy(value) \/ IsInstanceBool(value)

\* the for loop of lines 334-354: a later pair overwrites an earlier key
RECURSIVE FillAttributes(_, _)
FillAttributes(pairs, attributes) ==
    IF pairs = <<>>
    THEN attributes
    ELSE LET key == Head(pairs)[1]
             value == Head(pairs)[2]
         IN FillAttributes(Tail(pairs),
                           IF Keeps(value)
                           THEN (key :> value) @@ attributes
                           ELSE attributes)

\* reading self._publication_date before any _update_from_feed raises
DeviceStateAttributes(self) ==
    IF self.publication_date = Unset
    THEN [raised |-> "AttributeError", attributes |-> <<>>]
    ELSE [raised |-> "", attributes |-> FillAttributes(AttributePairs(self), <<>>)]

(***************************************************************************)
(* Feed entries, as the external feed manager supplies them.  Only the     *)
(* attributes _update_from_feed reads are kept.                            *)
(***************************************************************************)
FeedEntry(external_id, etsa_id, category1, category2, location, status, statewide) ==
    [external_id |-> external_id,
     etsa_id |-> etsa_id,
     category1 |-> category1,
     category2 |-> category2,
     location |-> location,
     status |-> status,
     statewide |-> statewide,
     description |-> Str("Grass fire, not yet under control"),
     attribution |-> Str("VICEmergency"),
     publication_date |-> Str("2020-01-03T10:15:00+11:00"),
     source_organisation |-> Str("CFA"),
     resources |-> List("[3]"),
     size |-> Str("2.5"),
     size_fmt |-> Str("2.5 Ha."),
     type |-> Str("incident"),
     distance_to_home |-> Float("12.5"),
     coordinates |-> <<Float("-37.81"), Float("144.96")>>]

\* entries the feed may hold for identifier x in the lifecycle specification:
\* a warning whose etsa_id repeats the identifier, and the same incident made
\* safe under an etsa_id of its own
LifecycleEntries(x) ==
    { FeedEntry(x, x, Str("Fire"), Str("Bushfire"), Str("Melbourne"),
                Str("Warning"), Bool(FALSE)),
      FeedEntry(x, ForeignEtsaId, Str("Fire"), Str("Bushfire"), Str("Melbourne"),
                Str("Safe"), Bool(FALSE)) }

\* the same, and an entry whose etsa_id is the identifier of another entry
CrossEntries(x) ==
    LifecycleEntries(x) \cup
    { FeedEntry(x, etsa_id, Str("Fire"), Str("Bushfire"), Str("Melbourne"),
                Str("Warning"), Bool(FALSE)) : etsa_id \in Ids \ {x} }

(***************************************************************************)
(* VICEmergencyFeedEntityManager.get_entry: dict.get, None when absent     *)
(***************************************************************************)
GetEntry(external_id) ==
    IF external_id \in DOMAIN feed_entries THEN feed_entries[external_id] ELSE None

(***************************************************************************)
(* VICEmergencyLocationEvent.async_update                                  *)
(***************************************************************************)
\* variant: an absent entry resets the entity to its constructed fields
AsyncUpdateClearsWhenAbsent(self) ==
    LET feed_entry == GetEntry(self.external_id)
    IN IF feed_entry # None
       THEN UpdateFromFeed(self, feed_entry)
       ELSE [NewEntity(self.external_id) EXCEPT
                !.remove_signal_delete = self.remove_signal_delete,
                !.remove_signal_update = self.remove_signal_update]

AsyncUpdate(self) ==
    LET feed_entry == GetEntry(self.external_id)
    IN IF feed_entry # None THEN UpdateFromFeed(self, feed_entry) ELSE self

(***************************************************************************)
(* VICEmergencyLocationEvent.async_added_to_hass                           *)
(***************************************************************************)
AsyncAddedToHass(self) ==
    [self EXCEPT
        !.remove_signal_delete = Function(SIGNAL_DELETE_ENTITY(self.external_id)),
        !.remove_signal_update = Function(SIGNAL_UPDATE_ENTITY(self.external_id))]

\* what async_dispatcher_connect registers for entity i, as seen by the dispatcher
Subscriptions(self, i) ==
    { <<self.remove_signal_delete.v, i>>, <<self.remove_signal_update.v, i>> }

\* entities whose callback is connected to `signal`
Targets(signal) == { i \in 1..Len(entities) : <<signal, i>> \in dispatcher }

(***************************************************************************)
(* Host side of one entity.                                                *)
(***************************************************************************)
NewRegistration(external_id) ==
    [cid |-> external_id,       \* identifier the entity was constructed with
     phase |-> "pending",       \* pending -> added -> removed
     renders |-> 0,             \* render passes run so far
     update_tasks |-> 0,        \* scheduled async_update_ha_state(True) tasks
     remove_tasks |-> 0,        \* scheduled async_remove tasks
     removals |-> 0,            \* times removed from the host registry
     delete_owed |-> FALSE]     \* removed(cid) fired while the entity was registered

\* feed-manager callbacks fired so far
Callbacks == Len(log["X"]) + Len(log["Y"])

\* the host has run every scheduled task
Quiescent ==
    \A i \in 1..Len(registry) :
        /\ registry[i].phase # "pending"
        /\ registry[i].update_tasks = 0
        /\ registry[i].remove_tasks = 0

(***************************************************************************)
(* VICEmergencyFeedEntityManager.async_init / async_stop                   *)
(* async_stop gives the timer handle, whether the interval listener is     *)
(* still connected, the updates left in flight, and what it raised.        *)
(***************************************************************************)
AsyncInit ==
    [track_time_remove_callback |-> Function("remove_listener"), timer |-> TRUE]

\* variant: the stored disconnect function is never called
AsyncStopKeepsTimer ==
    [track_time_remove_callback |-> track_time_remove_callback,
     timer |-> timer,
     updates |-> updates,
     raised |-> ""]

\* variant: stopping also cancels the updates in flight
AsyncStopCancelsUpdates ==
    [track_time_remove_callback |-> track_time_remove_callback,
     timer |-> IF Truthy(track_time_remove_callback) THEN FALSE ELSE timer,
     updates |-> 0,
     raised |-> ""]

\* variant: the stored value is called without the `if` of line 164
AsyncStopUnguarded ==
    IF track_time_remove_callback = None
    THEN [track_time_remove_callback |-> track_time_remove_callback,
          timer |-> timer,
          updates |-> updates,
          raised |-> "TypeError"]
    ELSE [track_time_remove_callback |-> track_time_remove_callback,
          timer |-> FALSE,
          updates |-> updates,
          raised |-> ""]

AsyncStop ==
    IF Truthy(track_time_remove_callback)
    THEN [track_time_remove_callback |-> track_time_remove_callback,
          timer |-> FALSE,
          updates |-> updates,
          raised |-> ""]
    ELSE [track_time_remove_callback |-> track_time_remove_callback,
          timer |-> timer,
          updates |-> updates,
          raised |-> ""]

(***************************************************************************)
(* Configuration: PLATFORM_SCHEMA and async_setup_platform.                *)
(***************************************************************************)
CONF_INC_CATEGORIES == "include_categories"
CONF_EXC_CATEGORIES == "exclude_categories"
CONF_STATEWIDE == "statewide"
CONF_LATITUDE == "latitude"
CONF_LONGITUDE == "longitude"
CONF_RADIUS == "radius"
CONF_SCAN_INTERVAL == "scan_interval"

DEFAULT_RADIUS_IN_KM == Float("20.0")
DEFAULT_STATEWIDE == Bool(FALSE)
SCAN_INTERVAL == "0:05:00"
VALID_CATEGORIES ==
    {"Advice", "Emergency Warning", "Not Applicable", "Watch and Act", "Burn Area"}

\* hass.config.latitude, hass.config.longitude
HassConfig == [latitude |-> Float("-37.81"), longitude |-> Float("144.96")]

\* dict.get(key, default)
Get(config, key, default) == IF key \in DOMAIN config THEN config[key] ELSE default

\* cv.ensure_list: None gives [], a list is kept, anything else is wrapped
EnsureList(value) ==
    IF value = None THEN <<>>
    ELSE IF value.t = "list" THEN value.items
    ELSE <<value.v>>

\* vol.Coerce(bool)
CoerceBool(value) == Bool(Truthy(value))

\* PLATFORM_SCHEMA applied to a configuration whose values are valid: every
\* Optional with a default is filled in, latitude and longitude only when given
PlatformSchema(config) ==
    LET filled ==
            (CONF_INC_CATEGORIES :>
                 [t |-> "list", items |-> EnsureList(Get(config, CONF_INC_CATEGORIES,
                                                         [t |-> "list", items |-> <<>>]))])
            @@ (CONF_EXC_CATEGORIES :>
                 [t |-> "list", items |-> EnsureList(Get(config, CONF_EXC_CATEGORIES,
                                                         [t |-> "list", items |-> <<>>]))])
            @@ (CONF_RADIUS :> Get(config, CONF_RADIUS, DEFAULT_RADIUS_IN_KM))
            @@ (CONF_STATEWIDE :> CoerceBool(Get(config, CONF_STATEWIDE, DEFAULT_STATEWIDE)))
    IN filled @@ [key \in DOMAIN config \cap {CONF_LATITUDE, CONF_LONGITUDE, CONF_SCAN_INTERVAL}
                      |-> config[key]]

\* variant: the two category lists reach the feed manager exchanged
AsyncSetupPlatformSwapsFilters(config) ==
    [scan_interval |-> Get(config, CONF_SCAN_INTERVAL, SCAN_INTERVAL),
     feed_manager |->
         [coordinates |-> <<Get(config, CONF_LATITUDE, HassConfig.latitude),
                            Get(config, CONF_LONGITUDE, HassConfig.longitude)>>,
          filter_radius |-> config[CONF_RADIUS],
          filter_inc_categories |-> Get(config, CONF_EXC_CATEGORIES, None),
          filter_exc_categories |-> Get(config, CONF_INC_CATEGORIES, None)]]

\* async_setup_platform and VICEmergencyFeedEntityManager.__init__: what the
\* manager keeps, and the arguments VICEmergencyIncidentsFeedManager is built with
AsyncSetupPlatform(config) ==
    [scan_interval |-> Get(config, CONF_SCAN_INTERVAL, SCAN_INTERVAL),
     feed_manager |->
         [coordinates |-> <<Get(config, CONF_LATITUDE, HassConfig.latitude),
                            Get(config, CONF_LONGITUDE, HassConfig.longitude)>>,
          filter_radius |-> config[CONF_RADIUS],
          filter_inc_categories |-> Get(config, CONF_INC_CATEGORIES, None),
          filter_exc_categories |-> Get(config, CONF_EXC_CATEGORIES, None)]]

\* the platform set up from an empty configuration
DefaultSetup ==
    [phase |-> "set up",
     config |-> PlatformSchema(<<>>),
     manager |-> AsyncSetupPlatform(PlatformSchema(<<>>))]

(***************************************************************************)
(* State after async_setup_platform has returned.                          *)
(***************************************************************************)
ViewIdle ==
    [self |-> NewEntity("X"),      \* the entity under projection
     renders |-> 0,                \* render passes run on it
     icon |-> "",                  \* last icon read ("" before any read)
     attributes |-> <<>>,          \* last attribute mapping read
     attributes_read |-> FALSE,    \* has device_state_attributes been read since the last render
     raised |-> ""]                \* exception raised by the last read

LifecycleInit ==
    /\ feed_entries = <<>>
    /\ entities = <<>>
    /\ registry = <<>>
    /\ dispatcher = {}
    /\ track_time_remove_callback = None
    /\ timer = FALSE
    /\ hass_events = {}
    /\ startup_task = TRUE
    /\ updates = 0
    /\ log = [x \in Ids |-> <<>>]
    /\ orderly = TRUE
    /\ raised = ""

Init ==
    /\ LifecycleInit
    /\ view = ViewIdle
    /\ setup = DefaultSetup

(***************************************************************************)
(* Host lifecycle and scheduler.                                           *)
(***************************************************************************)
\* the task created by line 110 begins: manager.async_update() enters the fetch
StartupUpdate ==
    /\ startup_task
    /\ updates < MaxUpdates
    /\ startup_task' = FALSE
    /\ updates' = updates + 1
    /\ raised' = ""
    /\ UNCHANGED <<feed_entries, entities, registry, dispatcher,
                   track_time_remove_callback, timer, hass_events, log,
                   orderly, view, setup>>

\* EVENT_HOMEASSISTANT_START: start_feed_manager -> manager.async_init()
HomeAssistantStart ==
    /\ "start" \notin hass_events
    /\ "stop" \notin hass_events
    /\ hass_events' = hass_events \cup {"start"}
    /\ track_time_remove_callback' = AsyncInit.track_time_remove_callback
    /\ timer' = AsyncInit.timer
    /\ raised' = ""
    /\ UNCHANGED <<feed_entries, entities, registry, dispatcher, startup_task,
                   updates, log, orderly, view, setup>>

\* EVENT_HOMEASSISTANT_STOP: stop_feed_manager -> manager.async_stop()
HomeAssistantStop ==
    /\ "stop" \notin hass_events
    /\ hass_events' = hass_events \cup {"stop"}
    /\ track_time_remove_callback' = AsyncStop.track_time_remove_callback
    /\ timer' = AsyncStop.timer
    /\ updates' = AsyncStop.updates
    /\ raised' = AsyncStop.raised
    /\ UNCHANGED <<feed_entries, entities, registry, dispatcher, startup_task,
                   log, orderly, view, setup>>

\* the interval listener fires: update(event_time) -> self.async_update()
TimerTick ==
    /\ timer
    /\ updates < MaxUpdates
    /\ updates' = updates + 1
    /\ raised' = ""
    /\ UNCHANGED <<feed_entries, entities, registry, dispatcher,
                   track_time_remove_callback, timer, hass_events, startup_task,
                   log, orderly, view, setup>>

\* variant: a failed fetch makes the manager give up and drop its interval listener
ManagerAsyncUpdateGivesUp(fetch_raised) ==
    [raised |-> fetch_raised,
     track_time_remove_callback |-> track_time_remove_callback,
     timer |-> IF fetch_raised = "" THEN timer ELSE FALSE]

\* variant: a failed fetch is caught inside async_update
ManagerAsyncUpdateSwallows(fetch_raised) ==
    [raised |-> "",
     track_time_remove_callback |-> track_time_remove_callback,
     timer |-> timer]

\* VICEmergencyFeedEntityManager.async_update once the awaited
\* self._feed_manager.update() has returned or raised fetch_raised: there is no
\* try/except, so whatever was raised leaves async_update
ManagerAsyncUpdate(fetch_raised) ==
    [raised |-> fetch_raised,
     track_time_remove_callback |-> track_time_remove_callback,
     timer |-> timer]

\* self._feed_manager.update() returns
UpdateDone ==
    /\ updates > 0
    /\ updates' = updates - 1
    /\ raised' = ManagerAsyncUpdate("").raised
    /\ track_time_remove_callback' = ManagerAsyncUpdate("").track_time_remove_callback
    /\ timer' = ManagerAsyncUpdate("").timer
    /\ UNCHANGED <<feed_entries, entities, registry, dispatcher,
                   hass_events, startup_task, log, orderly, view, setup>>

\* self._feed_manager.update() raises
UpdateFails ==
    /\ updates > 0
    /\ updates' = updates - 1
    /\ raised' = ManagerAsyncUpdate("ClientError").raised
    /\ track_time_remove_callback' =
           ManagerAsyncUpdate("ClientError").track_time_remove_callback
    /\ timer' = ManagerAsyncUpdate("ClientError").timer
    /\ UNCHANGED <<feed_entries, entities, registry, dispatcher,
                   hass_events, startup_task, log, orderly, view, setup>>

(***************************************************************************)
(* Feed-manager callbacks, fired by the feed manager during an update.     *)
(***************************************************************************)
\* async_dispatcher_send(signal): every connected _update_callback schedules
\* async_schedule_update_ha_state(True)
SendUpdate(signal) ==
    [i \in 1..Len(registry) |->
        IF i \in Targets(signal)
        THEN [registry[i] EXCEPT !.update_tasks = @ + 1]
        ELSE registry[i]]

\* async_dispatcher_send(signal): every connected _delete_callback schedules
\* hass.async_create_task(self.async_remove()); reg is the registry to start from
SendDelete(signal, reg) ==
    [i \in 1..Len(reg) |->
        IF i \in Targets(signal)
        THEN [reg[i] EXCEPT !.remove_tasks = @ + 1]
        ELSE reg[i]]

\* entry-added callback: _generate_entity(external_id)
GenerateEntity(external_id) ==
    /\ Len(entities) < MaxEntities
    /\ entities' = Append(entities, NewEntity(external_id))
    /\ registry' = Append(registry, NewRegistration(external_id))
    /\ UNCHANGED dispatcher

\* entry-updated callback: _update_entity(external_id)
UpdateEntity(external_id) ==
    /\ registry' = SendUpdate(SIGNAL_UPDATE_ENTITY(external_id))
    /\ UNCHANGED <<entities, dispatcher>>

\* entry-removed callback: _remove_entity(external_id)
RemoveEntity(external_id) ==
    /\ registry' = SendDelete(SIGNAL_DELETE_ENTITY(external_id),
                              [i \in 1..Len(registry) |->
                                  IF registry[i].cid = external_id
                                     /\ registry[i].phase = "added"
                                  THEN [registry[i] EXCEPT !.delete_owed = TRUE]
                                  ELSE registry[i]])
    /\ UNCHANGED <<entities, dispatcher>>

FeedAdded(x, feed_entry) ==
    /\ updates > 0
    /\ x \notin DOMAIN feed_entries
    /\ Callbacks < MaxCallbacks
    /\ feed_entries' = (x :> feed_entry) @@ feed_entries
    /\ log' = [log EXCEPT ![x] = Append(@, "added")]
    /\ orderly' = (orderly /\ Quiescent)
    /\ GenerateEntity(x)
    /\ raised' = ""
    /\ UNCHANGED <<track_time_remove_callback, timer, hass_events, startup_task,
                   updates, view, setup>>

FeedUpdated(x, feed_entry) ==
    /\ updates > 0
    /\ x \in DOMAIN feed_entries
    /\ Callbacks < MaxCallbacks
    /\ feed_entries' = [feed_entries EXCEPT ![x] = feed_entry]
    /\ log' = [log EXCEPT ![x] = Append(@, "updated")]
    /\ orderly' = (orderly /\ Quiescent)
    /\ UpdateEntity(x)
    /\ raised' = ""
    /\ UNCHANGED <<track_time_remove_callback, timer, hass_events, startup_task,
                   updates, view, setup>>

FeedRemoved(x) ==
    /\ updates > 0
    /\ x \in DOMAIN feed_entries
    /\ Callbacks < MaxCallbacks
    /\ feed_entries' = [y \in DOMAIN feed_entries \ {x} |-> feed_entries[y]]
    /\ log' = [log EXCEPT ![x] = Append(@, "removed")]
    /\ orderly' = (orderly /\ Quiescent)
    /\ RemoveEntity(x)
    /\ raised' = ""
    /\ UNCHANGED <<track_time_remove_callback, timer, hass_events, startup_task,
                   updates, view, setup>>

(***************************************************************************)
(* Host tasks on one entity.                                               *)
(***************************************************************************)
\* the task of self._async_add_entities([new_entity], True): the first render
\* pass (update_before_add), then async_added_to_hass, then the state write
PlatformAddEntity(i) ==
    /\ registry[i].phase = "pending"
    /\ LET added == AsyncAddedToHass(AsyncUpdate(entities[i]))
       IN /\ entities' = [entities EXCEPT ![i] = added]
          /\ dispatcher' = dispatcher \cup Subscriptions(added, i)
          /\ raised' = DeviceStateAttributes(entities'[i]).raised
    /\ registry' = [registry EXCEPT ![i].phase = "added", ![i].renders = @ + 1]
    /\ UNCHANGED <<feed_entries, track_time_remove_callback, timer, hass_events,
                   startup_task, updates, log, orderly, view, setup>>

\* the task of async_schedule_update_ha_state(True): a render pass, then the
\* state write
UpdateTask(i) ==
    /\ registry[i].update_tasks > 0
    /\ entities' = [entities EXCEPT ![i] = AsyncUpdate(@)]
    /\ raised' = DeviceStateAttributes(entities'[i]).raised
    /\ registry' = [registry EXCEPT ![i].update_tasks = @ - 1, ![i].renders = @ + 1]
    /\ UNCHANGED <<feed_entries, dispatcher, track_time_remove_callback, timer,
                   hass_events, startup_task, updates, log, orderly, view, setup>>

\* variant: only the delete subscription is released
AsyncWillRemoveFromHassKeepsUpdate(self, i) ==
    dispatcher \ { <<self.remove_signal_delete.v, i>> }

\* async_will_remove_from_hass: both stored disconnect functions are called
AsyncWillRemoveFromHass(self, i) == dispatcher \ Subscriptions(self, i)

\* the task of self.async_remove(): async_will_remove_from_hass, then the
\* entity leaves the host registry; a second task finds it already gone
RemoveTask(i) ==
    /\ registry[i].remove_tasks > 0
    /\ IF registry[i].phase = "added"
       THEN /\ dispatcher' = AsyncWillRemoveFromHass(entities[i], i)
            /\ registry' = [registry EXCEPT ![i].remove_tasks = @ - 1,
                                            ![i].phase = "removed",
                                            ![i].removals = @ + 1]
       ELSE /\ registry' = [registry EXCEPT ![i].remove_tasks = @ - 1]
            /\ UNCHANGED dispatcher
    /\ raised' = ""
    /\ UNCHANGED <<feed_entries, entities, track_time_remove_callback, timer,
                   hass_events, startup_task, updates, log, orderly, view, setup>>

Next ==
    \/ StartupUpdate
    \/ HomeAssistantStart
    \/ HomeAssistantStop
    \/ TimerTick
    \/ UpdateDone
    \/ UpdateFails
    \/ \E x \in Ids : \E feed_entry \in LifecycleEntries(x) : FeedAdded(x, feed_entry)
    \/ \E x \in Ids : \E feed_entry \in LifecycleEntries(x) : FeedUpdated(x, feed_entry)
    \/ \E x \in Ids : FeedRemoved(x)
    \/ \E i \in 1..Len(entities) : PlatformAddEntity(i)
    \/ \E i \in 1..Len(entities) : UpdateTask(i)
    \/ \E i \in 1..Len(entities) : RemoveTask(i)

Spec == Init /\ [][Next]_vars

\* the lifecycle over feeds in which an etsa_id may repeat another identifier
CrossNext ==
    \/ StartupUpdate
    \/ HomeAssistantStart
    \/ HomeAssistantStop
    \/ TimerTick
    \/ UpdateDone
    \/ UpdateFails
    \/ \E x \in Ids : \E feed_entry \in CrossEntries(x) : FeedAdded(x, feed_entry)
    \/ \E x \in Ids : \E feed_entry \in CrossEntries(x) : FeedUpdated(x, feed_entry)
    \/ \E x \in Ids : FeedRemoved(x)
    \/ \E i \in 1..Len(entities) : PlatformAddEntity(i)
    \/ \E i \in 1..Len(entities) : UpdateTask(i)
    \/ \E i \in 1..Len(entities) : RemoveTask(i)

CrossSpec == Init /\ [][CrossNext]_vars

(***************************************************************************)
(* Projection of one entity: the render pass and the properties the host   *)
(* reads (icon, device_state_attributes), over a wide range of entries.    *)
(***************************************************************************)
Statuses ==
    {Str("Safe"), Str("Complete"), Str("Unknown"), Str("Under Control"),
     Str("Warning"), Str("Minor"), Str(""), None}
Categories1 == {Str("Fire"), Str("Rescue"), Str("Tree Down"), Str("Flooding"), Str("Accident")}
Categories2 == {Str("Rescue Road Trap"), Str("Bushfire"), None}
Locations == {Str("Melbourne"), Str("")}

ViewEntries ==
    { FeedEntry("X", etsa_id, category1, category2, location, status, statewide) :
        etsa_id \in {"X", ForeignEtsaId}, category1 \in Categories1,
        category2 \in Categories2, location \in Locations, status \in Statuses,
        statewide \in {Bool(TRUE), Bool(FALSE)} }

ViewInit ==
    /\ \E feed_entry \in ViewEntries : feed_entries = ("X" :> feed_entry)
    /\ entities = <<>>
    /\ registry = <<>>
    /\ dispatcher = {}
    /\ track_time_remove_callback = None
    /\ timer = FALSE
    /\ hass_events = {}
    /\ startup_task = TRUE
    /\ updates = 0
    /\ log = [x \in Ids |-> <<>>]
    /\ orderly = TRUE
    /\ raised = ""
    /\ view = ViewIdle
    /\ setup = DefaultSetup

\* a render pass: async_update
ViewRender ==
    /\ view.renders < MaxRenders
    /\ view' = [view EXCEPT !.self = AsyncUpdate(@),
                            !.renders = @ + 1,
                            !.icon = "",
                            !.attributes = <<>>,
                            !.attributes_read = FALSE,
                            !.raised = ""]
    /\ UNCHANGED lifecycle_vars

\* the host reads the icon property
ViewReadIcon ==
    /\ view' = [view EXCEPT !.icon = Icon(view.self)]
    /\ UNCHANGED lifecycle_vars

\* the host reads the device_state_attributes property
ViewReadAttributes ==
    /\ view' = [view EXCEPT !.attributes = DeviceStateAttributes(view.self).attributes,
                            !.attributes_read = TRUE,
                            !.raised = DeviceStateAttributes(view.self).raised]
    /\ UNCHANGED lifecycle_vars

ViewNext ==
    \/ ViewRender
    \/ ViewReadIcon
    \/ ViewReadAttributes

ViewSpec == ViewInit /\ [][ViewNext]_vars

(***************************************************************************)
(* Platform setup: a configuration is validated, then the platform is set  *)
(* up from it.                                                             *)
(***************************************************************************)
ConfigCategories == {"Advice", "Watch and Act", "Burn Area"}

RECURSIVE CategoryLists(_)
CategoryLists(n) ==
    IF n = 0 THEN {<<>>}
    ELSE CategoryLists(n - 1) \cup
         { Append(list, category) :
             list \in { l \in CategoryLists(n - 1) : Len(l) = n - 1 },
             category \in ConfigCategories }

\* what a configuration file may give for a category option: nothing, one
\* category, or a list of categories
CategoryOptions(key) ==
    {<<>>}
    \cup { key :> Str(category) : category \in ConfigCategories }
    \cup { key :> [t |-> "list", items |-> list] : list \in CategoryLists(MaxCategories) }

Configurations ==
    { inc @@ exc @@ statewide @@ coordinates :
        inc \in CategoryOptions(CONF_INC_CATEGORIES),
        exc \in CategoryOptions(CONF_EXC_CATEGORIES),
        statewide \in {<<>>, CONF_STATEWIDE :> Bool(TRUE), CONF_STATEWIDE :> Bool(FALSE)},
        coordinates \in {<<>>, (CONF_LATITUDE :> Float("-36.75"))
                                @@ (CONF_LONGITUDE :> Float("144.28"))} }

SetupInit ==
    /\ feed_entries = <<>>
    /\ entities = <<>>
    /\ registry = <<>>
    /\ dispatcher = {}
    /\ track_time_remove_callback = None
    /\ timer = FALSE
    /\ hass_events = {}
    /\ startup_task = FALSE
    /\ updates = 0
    /\ log = [x \in Ids |-> <<>>]
    /\ orderly = TRUE
    /\ raised = ""
    /\ view = ViewIdle
    /\ \E config \in Configurations :
           setup = [phase |-> "configured", config |-> config, manager |-> None]

\* the host validates the platform's configuration against PLATFORM_SCHEMA
ValidateConfig ==
    /\ setup.phase = "configured"
    /\ setup' = [setup EXCEPT !.phase = "validated", !.config = PlatformSchema(@)]
    /\ UNCHANGED <<feed_entries, entities, registry, dispatcher,
                   track_time_remove_callback, timer, hass_events, startup_task,
                   updates, log, orderly, raised, view>>

\* async_setup_platform: the manager is built and its first update scheduled
SetupPlatform ==
    /\ setup.phase = "validated"
    /\ setup' = [setup EXCEPT !.phase = "set up",
                              !.manager = AsyncSetupPlatform(setup.config)]
    /\ startup_task' = TRUE
    /\ UNCHANGED <<feed_entries, entities, registry, dispatcher,
                   track_time_remove_callback, timer, hass_events, updates, log,
                   orderly, raised, view>>

SetupNext ==
    \/ ValidateConfig
    \/ SetupPlatform

SetupSpec == SetupInit /\ [][SetupNext]_vars

(***************************************************************************)
(* Properties.                                                             *)
(***************************************************************************)
Registered(x) == { i \in 1..Len(registry) : registry[i].cid = x }

\* C1: after the callbacks added(X), updated(X), removed(X), each fired with
\* the host idle, and once the host is idle again, exactly one entity was
\* created for X, it ran exactly one render pass beyond its first, it was
\* removed exactly once, and the dispatcher holds none of its subscriptions.
C1_AddUpdateRemoveOnce ==
    \A x \in Ids :
        (log[x] = <<"added", "updated", "removed">> /\ orderly /\ Quiescent) =>
            /\ Cardinality(Registered(x)) = 1
            /\ \A i \in Registered(x) :
                /\ registry[i].renders = 2
                /\ registry[i].phase = "removed"
                /\ registry[i].removals = 1
                /\ \A sub \in dispatcher : sub[2] # i

\* C2: the identifier an entity holds and uses for get_entry is, in every
\* state, the identifier it was constructed with.
C2_IdentifierNeverChanges ==
    \A i \in 1..Len(entities) : entities[i].external_id = registry[i].cid

\* C3: an entity that was registered with the host when removed(X) fired for
\* its identifier is removed from the host registry once every task the
\* delete signal scheduled for it has run.
C3_RemovedEntryRemovesEntity ==
    \A i \in 1..Len(registry) :
        (registry[i].delete_owed /\ registry[i].remove_tasks = 0) =>
            registry[i].phase = "removed"

\* the priority list of C4, first match wins
C4_Rules(status, category1, category2) ==
    << <<status \in {Str("Safe"), Str("Complete")}, "mdi:map-marker-check">>,
       <<status = Str("Unknown"), "mdi:map-marker-question">>,
       <<category1 = Str("Rescue") /\ category2 = Str("Rescue Road Trap"),
         "mdi:car-emergency">>,
       <<category1 = Str("Fire") /\ status = Str("Under Control"), "mdi:fire">>,
       <<category1 = Str("Fire"), "mdi:fire-alert">>,
       <<category1 = Str("Tree Down"), "mdi:tree">>,
       <<category1 = Str("Flooding"), "mdi:house-flood">>,
       <<status = Str("Warning"), "mdi:alert">>,
       <<TRUE, "mdi:alarm-light">> >>

C4_FirstMatch(rules) ==
    LET first == CHOOSE i \in 1..Len(rules) :
                    rules[i][1] /\ \A j \in 1..(i - 1) : ~rules[j][1]
    IN rules[first][2]

\* C4: every icon read equals the first matching rule of the priority list
\* applied to the entity's (status, category1, category2); a status rule
\* outranks a category rule.
C4_IconFollowsPriorityList ==
    view.icon # "" =>
        /\ view.icon = C4_FirstMatch(C4_Rules(view.self.status, view.self.category1,
                                              view.self.category2))
        /\ (view.self.status = Str("Safe") /\ view.self.category1 = Str("Fire")) =>
               view.icon = "mdi:map-marker-check"

C4_Witness ==
    /\ view.icon = "mdi:map-marker-check"
    /\ view.self.status = Str("Safe")
    /\ view.self.category1 = Str("Fire")

C5_Keys ==
    {ATTR_ID, ATTR_LOCATION, ATTR_ATTRIBUTION, ATTR_CATEGORY1, ATTR_CATEGORY2,
     ATTR_DESCRIPTION, ATTR_PUBLICATION_DATE, ATTR_SOURCE_TITLE, ATTR_SOURCE_ORG,
     ATTR_RESOURCES, ATTR_SIZE, ATTR_SIZE_FMT, ATTR_STATUS, ATTR_STATEWIDE, ATTR_TYPE}

\* the entity field an attribute key is read from
C5_Field(self, key) ==
    CASE key = ATTR_ID -> self.id
      [] key = ATTR_LOCATION -> self.location
      [] key = ATTR_ATTRIBUTION -> self.attribution
      [] key = ATTR_CATEGORY1 -> self.category1
      [] key = ATTR_CATEGORY2 -> self.category2
      [] key = ATTR_DESCRIPTION -> self.description
      [] key = ATTR_PUBLICATION_DATE -> self.publication_date
      [] key = ATTR_SOURCE_TITLE -> self.sourceTitle
      [] key = ATTR_SOURCE_ORG -> self.sourceOrg
      [] key = ATTR_RESOURCES -> self.resources
      [] key = ATTR_SIZE -> self.size
      [] key = ATTR_SIZE_FMT -> self.sizefmt
      [] key = ATTR_STATUS -> self.status
      [] key = ATTR_STATEWIDE -> self.statewide
      [] key = ATTR_TYPE -> self.type

\* a value that is a boolean, or is neither None nor empty
C5_BooleanOrNonEmpty(value) ==
    \/ value.t = "bool"
    \/ value.t = "str" /\ value.v # ""
    \/ value.t = "float" /\ value.v # "0.0"
    \/ value.t = "list" /\ value.v # "[]"

\* C5: the attribute mapping read from an entity contains a key exactly when
\* the key's field is truthy or a boolean, and then holds the field's value:
\* statewide = False is kept, an empty-string or None status is dropped.
C5_AttributeKeptIffTruthyOrBool ==
    view.attributes_read =>
        /\ \A key \in C5_Keys :
            /\ (view.raised = "" /\ key \in DOMAIN view.attributes)
                   <=> C5_BooleanOrNonEmpty(C5_Field(view.self, key))
            /\ key \in DOMAIN view.attributes =>
                   view.attributes[key] = C5_Field(view.self, key)
        /\ view.self.statewide = Bool(FALSE) =>
               /\ ATTR_STATEWIDE \in DOMAIN view.attributes
               /\ view.attributes[ATTR_STATEWIDE] = Bool(FALSE)
        /\ view.self.status \in {Str(""), None} =>
               ATTR_STATUS \notin DOMAIN view.attributes

C5_Witness ==
    /\ view.attributes_read
    /\ view.raised = ""
    /\ view.self.statewide = Bool(FALSE)
    /\ view.self.status = Str("")
    /\ ATTR_STATEWIDE \in DOMAIN view.attributes
    /\ ATTR_STATUS \notin DOMAIN view.attributes

\* the entry's value an attribute key is documented to expose
C6_EntryValue(feed_entry, key) ==
    CASE key = ATTR_ID -> Str(feed_entry.external_id)
      [] key = ATTR_LOCATION -> feed_entry.location
      [] key = ATTR_ATTRIBUTION -> feed_entry.attribution
      [] key = ATTR_CATEGORY1 -> feed_entry.category1
      [] key = ATTR_CATEGORY2 -> feed_entry.category2
      [] key = ATTR_DESCRIPTION -> feed_entry.description
      [] key = ATTR_PUBLICATION_DATE -> feed_entry.publication_date
      [] key = ATTR_SOURCE_ORG -> feed_entry.source_organisation
      [] key = ATTR_RESOURCES -> feed_entry.resources
      [] key = ATTR_SIZE -> feed_entry.size
      [] key = ATTR_SIZE_FMT -> feed_entry.size_fmt
      [] key = ATTR_STATUS -> feed_entry.status
      [] key = ATTR_STATEWIDE -> feed_entry.statewide
      [] key = ATTR_TYPE -> feed_entry.type

C6_NonEmptyEntry(feed_entry) ==
    \A key \in C5_Keys \ {ATTR_SOURCE_TITLE} :
        C5_BooleanOrNonEmpty(C6_EntryValue(feed_entry, key))

\* C6: an entity rendered once from an entry with every field non-empty
\* exposes every documented attribute key, each holding the entry's value.
C6_AllAttributesExposed ==
    (/\ view.attributes_read
     /\ view.renders = 1
     /\ C6_NonEmptyEntry(feed_entries["X"])) =>
        /\ C5_Keys \subseteq DOMAIN view.attributes
        /\ \A key \in (C5_Keys \ {ATTR_SOURCE_TITLE}) \cap DOMAIN view.attributes :
               view.attributes[key] = C6_EntryValue(feed_entries["X"], key)

\* C7: a render pass that finds the entity's entry leaves the entity named
\* category1, then " - ", then location, of that entry.
C7_NameIsCategoryDashLocation ==
    [][(view'.renders = view.renders + 1 /\ GetEntry(view.self.external_id) # None) =>
           LET feed_entry == GetEntry(view.self.external_id)
           IN /\ view'.self.name =
                     Str(feed_entry.category1.v \o " - " \o feed_entry.location.v)
              /\ (feed_entry.category1 = Str("Tree Down")
                  /\ feed_entry.location = Str("Melbourne")) =>
                     view'.self.name = Str("Tree Down - Melbourne")
              /\ (feed_entry.category1 = Str("Fire") /\ feed_entry.location = Str("")) =>
                     view'.self.name = Str("Fire - ")]_vars

C7_Witness ==
    /\ view.renders > 0
    /\ view.self.name = Str("Tree Down - Melbourne")

\* the fields of an entity the host displays: all but the two disconnect handles
C8_Display(self) ==
    [self EXCEPT !.remove_signal_delete = None, !.remove_signal_update = None]

\* C8: a render pass of an entity whose identifier is not in the feed
\* manager's entries finds no entry and changes no display field of it.
C8_AbsentEntryKeepsDisplay ==
    [][\A i \in 1..Len(entities) :
           (/\ registry'[i].renders = registry[i].renders + 1
            /\ entities[i].external_id \notin DOMAIN feed_entries) =>
               /\ GetEntry(entities[i].external_id) = None
               /\ C8_Display(entities'[i]) = C8_Display(entities[i])]_vars

\* an entity that was rendered from its entry and rendered again after the
\* entry had gone
C8_Witness ==
    \E i \in 1..Len(entities) :
        /\ registry[i].renders = 2
        /\ entities[i].external_id = registry[i].cid
        /\ entities[i].name # None
        /\ registry[i].cid \notin DOMAIN feed_entries
        /\ registry[i].update_tasks = 0
        /\ log[registry[i].cid] = <<"added", "updated", "removed">>

\* C9: the stop event on a manager whose init never ran raises nothing and
\* changes nothing but the record that the event has fired.
C9_StopWithoutInitChangesNothing ==
    [][("stop" \notin hass_events /\ "stop" \in hass_events'
        /\ track_time_remove_callback = None) =>
           /\ raised' = ""
           /\ UNCHANGED <<feed_entries, entities, registry, dispatcher,
                          track_time_remove_callback, timer, startup_task, updates,
                          log, orderly>>]_vars

C9_Witness ==
    /\ hass_events = {"stop"}
    /\ track_time_remove_callback = None
    /\ Callbacks > 0
    /\ Len(entities) > 0

\* C10: once the stop event has fired after the start event, the interval
\* listener is gone and no timer-triggered update begins (an update that
\* begins without consuming the startup task is timer-triggered).
C10_NoTickAfterStop ==
    [][({"start", "stop"} \subseteq hass_events) =>
           /\ ~timer
           /\ ~(updates' = updates + 1 /\ startup_task' = startup_task)]_vars

C10_Witness ==
    /\ hass_events = {"start", "stop"}
    /\ ~startup_task
    /\ updates = MaxUpdates

\* C11: a fetch that raises leaves async_update with the exception, and that
\* step changes nothing else: the interval listener stays registered and the
\* entities, their tasks and subscriptions are untouched, so a registered
\* timer can invoke update again.
C11_FailedUpdatePropagatesAndKeepsState ==
    [][/\ updates > 0 => ENABLED (UpdateFails /\ raised' = "ClientError")
       /\ (timer /\ updates < MaxUpdates) => ENABLED TimerTick
       /\ (updates' = updates - 1 /\ raised' # "") =>
              UNCHANGED <<feed_entries, entities, registry, dispatcher,
                          track_time_remove_callback, timer, hass_events,
                          startup_task, log>>]_vars

C11_Witness ==
    /\ raised = "ClientError"
    /\ timer
    /\ updates < MaxUpdates
    /\ \E i \in 1..Len(registry) : registry[i].phase = "added"

\* C12: the updated(X) callback changes no entity field, and schedules a
\* render pass for no entity constructed for another identifier, whose host
\* record it leaves as it was.
C12_UpdatedTouchesOnlyItsEntity ==
    [][\A x \in Ids :
           log'[x] = Append(log[x], "updated") =>
               /\ entities' = entities
               /\ \A i \in 1..Len(registry) :
                      registry[i].cid # x => registry'[i] = registry[i]]_vars

\* C13: the feed manager is built with the validated statewide option: it
\* receives a statewide argument equal to the configured value.
C13_StatewideReachesFeedManager ==
    setup.phase = "set up" =>
        /\ "statewide" \in DOMAIN setup.manager.feed_manager
        /\ setup.manager.feed_manager["statewide"] = setup.config[CONF_STATEWIDE]

\* C14: the feed manager is built with exactly the validated include and
\* exclude category lists as its include and exclude filters.
C14_CategoryListsPassUnchanged ==
    setup.phase = "set up" =>
        /\ setup.manager.feed_manager.filter_inc_categories.items
               = setup.config[CONF_INC_CATEGORIES].items
        /\ setup.manager.feed_manager.filter_exc_categories.items
               = setup.config[CONF_EXC_CATEGORIES].items
        /\ \A key \in {CONF_INC_CATEGORIES, CONF_EXC_CATEGORIES} :
               \A i \in 1..Len(setup.config[key].items) :
                   setup.config[key].items[i] \in VALID_CATEGORIES

C14_Witness ==
    /\ setup.phase = "set up"
    /\ setup.manager.feed_manager.filter_inc_categories.items = <<"Advice", "Burn Area">>
    /\ setup.manager.feed_manager.filter_exc_categories.items = <<"Watch and Act">>

\* C15: stopping while an update is in flight leaves that update in flight
\* and touches no entity; after the stop the update can still return, and its
\* added, updated and removed callbacks are still taken: added creates an
\* entity, updated and removed schedule the render and removal tasks of the
\* connected entities, and a scheduled removal still removes its entity.
C15_StopDoesNotInterruptUpdate ==
    /\ ("stop" \notin hass_events /\ updates > 0) =>
           ENABLED (/\ HomeAssistantStop
                    /\ updates' = updates
                    /\ UNCHANGED <<feed_entries, entities, registry, dispatcher>>)
    /\ ("stop" \in hass_events /\ updates > 0) =>
           /\ ENABLED UpdateDone
           /\ Callbacks < MaxCallbacks =>
                  \A x \in Ids :
                      IF x \in DOMAIN feed_entries
                      THEN /\ ENABLED (/\ FeedRemoved(x)
                                       /\ \A i \in Targets(SIGNAL_DELETE_ENTITY(x)) :
                                              registry'[i].remove_tasks
                                                  = registry[i].remove_tasks + 1)
                           /\ \A feed_entry \in LifecycleEntries(x) :
                                  ENABLED (/\ FeedUpdated(x, feed_entry)
                                           /\ \A i \in Targets(SIGNAL_UPDATE_ENTITY(x)) :
                                                  registry'[i].update_tasks
                                                      = registry[i].update_tasks + 1)
                      ELSE Len(entities) < MaxEntities =>
                               \A feed_entry \in LifecycleEntries(x) :
                                   ENABLED (/\ FeedAdded(x, feed_entry)
                                            /\ Len(entities') = Len(entities) + 1)
    /\ "stop" \in hass_events =>
           \A i \in 1..Len(registry) :
               (registry[i].remove_tasks > 0 /\ registry[i].phase = "added") =>
                   ENABLED (RemoveTask(i) /\ registry'[i].phase = "removed")

C15_Witness ==
    /\ "stop" \in hass_events
    /\ updates > 0
    /\ Callbacks > 0
    /\ \E i \in 1..Len(registry) : registry[i].phase = "pending"
    /\ \E i \in 1..Len(registry) : registry[i].update_tasks > 0

\* C16: an entity added to the host is connected to exactly the delete and
\* update channels of the identifier it was constructed with, the channels
\* the manager sends on for that identifier.
C16_SubscribesToOwnChannels ==
    \A i \in 1..Len(registry) :
        registry[i].phase = "added" =>
            { subscription \in dispatcher : subscription[2] = i }
                = { <<SIGNAL_DELETE_ENTITY(registry[i].cid), i>>,
                    <<SIGNAL_UPDATE_ENTITY(registry[i].cid), i>> }

C17_Rank(phase) ==
    CASE phase = "pending" -> 0
      [] phase = "added" -> 1
      [] phase = "removed" -> 2

\* C17 as stated: an entity's phase only moves forward from pending to added
\* to removed, and once it is removed no signal schedules a task on it and no
\* render pass changes its display fields.
C17_ForwardAndFrozenAfterRemoval ==
    [][\A i \in 1..Len(registry) :
           /\ C17_Rank(registry'[i].phase) >= C17_Rank(registry[i].phase)
           /\ registry[i].phase = "removed" =>
                  /\ registry'[i].update_tasks <= registry[i].update_tasks
                  /\ registry'[i].remove_tasks <= registry[i].remove_tasks
                  /\ C8_Display(entities'[i]) = C8_Display(entities[i])]_vars

\* C17 amended: an entity's phase only moves forward; once it is removed the
\* dispatcher holds none of its subscriptions and no signal schedules a task
\* on it; its display fields change only when a render pass that was
\* scheduled before the removal runs.
C17_ForwardAndDisconnectedAfterRemoval ==
    [][\A i \in 1..Len(registry) :
           /\ C17_Rank(registry'[i].phase) >= C17_Rank(registry[i].phase)
           /\ registry[i].phase = "removed" =>
                  /\ \A subscription \in dispatcher : subscription[2] # i
                  /\ registry'[i].update_tasks <= registry[i].update_tasks
                  /\ registry'[i].remove_tasks <= registry[i].remove_tasks
                  /\ C8_Display(entities'[i]) # C8_Display(entities[i]) =>
                         registry'[i].update_tasks = registry[i].update_tasks - 1]_vars

\* a removed entity with a render pass still scheduled, its identifier back in
\* the feed
C17_Witness ==
    \E i \in 1..Len(registry) :
        /\ registry[i].phase = "removed"
        /\ registry[i].update_tasks > 0
        /\ registry[i].cid \in DOMAIN feed_entries
        /\ entities[i].external_id \in DOMAIN feed_entries

\* C18: whenever every callback was fired with the host idle and the host has
\* again run every scheduled task, at most one entity created for an
\* identifier is registered with the host.
C18_AtMostOneEntityPerIdentifier ==
    (Quiescent /\ orderly) =>
        \A x \in Ids :
            Cardinality({ i \in 1..Len(registry) :
                            registry[i].cid = x /\ registry[i].phase = "added" }) <= 1

\* C19: every read of the attribute mapping returns a mapping and raises
\* nothing, and a read made before the entity was ever rendered from an entry
\* returns the empty mapping.
C19_AttributeReadNeverRaises ==
    view.attributes_read =>
        /\ view.raised = ""
        /\ view.renders = 0 => view.attributes = <<>>

\* C20: at most one invocation of the manager's update is in flight.
C20_AtMostOneUpdateInFlight == updates <= 1

====
